---- MODULE Spec2Model ----
(***************************************************************************)
(* A model of split_log_for_tests.py: find_head, extract_all_segments,     *)
(* rewrite_uuids and the split_log driver.                                 *)
(*                                                                         *)
(* Identifiers.  Python's None is 0.  Original uuids are positive; since   *)
(* the code only ever compares uuids for equality, the record at physical  *)
(* position i is given the uuid i (or none).  A parentUuid naming a        *)
(* position that carries no uuid, or a position past the end of the log,   *)
(* is a dangling reference.  uuid.uuid4() is a fresh-identifier source:    *)
(* its k-th call returns -k, different from every original uuid and from   *)
(* every earlier result.                                                   *)
(*                                                                         *)
(* Positions are 1-based here (Python's records[i] is records[i+1]).       *)
(***************************************************************************)
EXTENDS Integers, Sequences, FiniteSets, TLC

\* Longest enumerated log.
MaxLen == 3

None == 0

\* The record kinds the code distinguishes: find_head reads type and
\* isCompactSummary, is_compaction_marker reads isCompactSummary, type, subtype.
UserMsg  == [type |-> "user",   isCompactSummary |-> FALSE, subtype |-> "none"]
Summary  == [type |-> "user",   isCompactSummary |-> TRUE,  subtype |-> "none"]
Boundary == [type |-> "system", isCompactSummary |-> FALSE, subtype |-> "compact_boundary"]
SysNote  == [type |-> "system", isCompactSummary |-> FALSE, subtype |-> "none"]
Reply    == [type |-> "assistant", isCompactSummary |-> FALSE, subtype |-> "none"]

Shapes == {UserMsg, Reply, Summary, Boundary, SysNote}

\* One parsed line: has says whether the record carries a uuid.  A record
\* without uuid is never looked up, so its parentUuid is never read: it is
\* enumerated with parentUuid None only.
Lines ==
  { l \in [has : BOOLEAN, parentUuid : 0..MaxLen, shape : Shapes] :
      ~l.has => l.parentUuid = None }

Rec(u, p, s) ==
  [uuid |-> u, parentUuid |-> p, type |-> s.type,
   isCompactSummary |-> s.isCompactSummary, subtype |-> s.subtype]

MkLog(f) ==
  [i \in DOMAIN f |-> Rec(IF f[i].has THEN i ELSE None, f[i].parentUuid, f[i].shape)]

\* records is one of the logs of at most MaxLen lines.
IsLog(recs) == \E n \in 0..MaxLen : \E f \in [1..n -> Lines] : recs = MkLog(f)

\* spec.md section 8: physical order A, B, C, M, D, E; head E; D's parent is C.
ScenarioLog ==
  << Rec(1, None, UserMsg), Rec(2, 1, UserMsg), Rec(3, 2, UserMsg),
     Rec(4, None, Boundary), Rec(5, 3, UserMsg), Rec(6, 5, UserMsg) >>

\* The same log with D's parent the marker M, as Claude Code writes it.
ScenarioLogSevered ==
  << Rec(1, None, UserMsg), Rec(2, 1, UserMsg), Rec(3, 2, UserMsg),
     Rec(4, None, Boundary), Rec(5, 4, UserMsg), Rec(6, 5, UserMsg) >>

\* A reverted edit X written just before a compaction whose marker M keeps a
\* parent link to the live record C: A, C(A), X(A), M(C), D(M).
RevertLog ==
  << Rec(1, None, UserMsg), Rec(2, 1, UserMsg), Rec(3, 1, UserMsg),
     Rec(4, 2, Boundary), Rec(5, 4, UserMsg) >>

\* Three chains and a marker directly before another marker:
\* A, M0, B(M0), M1, S(summary), C(S).
TwoMarkerLog ==
  << Rec(1, None, UserMsg), Rec(2, None, Boundary), Rec(3, 2, Reply),
     Rec(4, None, Boundary), Rec(5, 4, Summary), Rec(6, 5, UserMsg) >>

\* spec.md section 8, third scenario: B's parent names no record; here B is
\* the record before a marker: B(dangling), M, D(M).
BrokenLog ==
  << Rec(1, 7, UserMsg), Rec(2, None, Boundary), Rec(3, 2, Reply) >>

ScenarioLogs == {ScenarioLog, ScenarioLogSevered, RevertLog, TwoMarkerLog, BrokenLog}

VARIABLES
  records,          \* load_records: the parsed lines in physical order
  pc,               \* position in split_log
  head,             \* find_head's result
  current_head,     \* extract_all_segments locals
  current,
  chain,
  prev_chain_head,
  segments,
  stop,             \* how the latest walk ended: "none", "root", "boundary", "missing"
  idx,              \* position of the marker the latest walk stopped at, else 0
  outputs,          \* the files written: <<session id, rewritten records>>
  uuid4_calls,      \* number of uuid.uuid4() calls so far
  passes,           \* parity of the passes made through the inner loop body
  walks             \* number of walks started (passes of the outer loop)

vars == << records, pc, head, current_head, current, chain, prev_chain_head,
           segments, stop, idx, outputs, uuid4_calls, passes, walks >>

----------------------------------------------------------------------------
\* Helpers

Reverse(s) == [i \in 1..Len(s) |-> s[Len(s) + 1 - i]]

Max(S) == CHOOSE x \in S : \A y \in S : y <= x

\* A list longer than the log can only be built by a walk that never ends
\* (it has revisited a record); its growth past that length is not tracked.
\* The same holds of the number of walks.
Cap == Len(records) + 1

SatAppend(s, x) == IF Len(s) < Cap THEN Append(s, x) ELSE s

\* load_records: by_uuid[record['uuid']] = record, later lines overwrite earlier.
UuidIndexes(recs, u) == { i \in 1..Len(recs) : recs[i].uuid = u }

HasUuid(recs, u) == u # None /\ UuidIndexes(recs, u) # {}

\* extract_all_segments: uuid_to_index[r['uuid']] = i
uuid_to_index(recs, u) == Max(UuidIndexes(recs, u))

by_uuid(recs, u) == recs[uuid_to_index(recs, u)]

\* Mutant: only compact_boundary system records count as markers.
is_compaction_marker_boundary_only(record) ==
  record.type = "system" /\ record.subtype = "compact_boundary"

\* Mutant: only compaction summaries count as markers.
is_compaction_marker_summary_only(record) == record.isCompactSummary

is_compaction_marker(record) ==
  \/ record.isCompactSummary
  \/ record.type = "system" /\ record.subtype = "compact_boundary"

\* Mutant: compaction summaries are not skipped.
RECURSIVE ScanHeadKeepsSummary(_, _)
ScanHeadKeepsSummary(recs, i) ==
  IF i = 0 THEN None
  ELSE IF recs[i].type \notin {"user", "assistant"} THEN ScanHeadKeepsSummary(recs, i - 1)
  ELSE recs[i].uuid

RECURSIVE ScanHead(_, _)
ScanHead(recs, i) ==
  IF i = 0 THEN None
  ELSE IF recs[i].type \notin {"user", "assistant"} THEN ScanHead(recs, i - 1)
  ELSE IF recs[i].isCompactSummary THEN ScanHead(recs, i - 1)
  ELSE recs[i].uuid

find_head(recs) == ScanHead(recs, Len(recs))

----------------------------------------------------------------------------
\* rewrite_uuids(segment, new_session_id), with n uuid4 calls made before it.
\* old_to_new is a set of <<old, new>> pairs, one per old uuid.

Lookup(old_to_new, old) == (CHOOSE pr \in old_to_new : pr[1] = old)[2]

Mapped(old_to_new, old) == \E pr \in old_to_new : pr[1] = old

\* Mutant: a parent that is not remapped is kept.
NewParentKeepsOld(old_to_new, old_parent) ==
  IF old_parent # None /\ Mapped(old_to_new, old_parent)
  THEN Lookup(old_to_new, old_parent)
  ELSE old_parent

NewParent(old_to_new, old_parent) ==
  IF old_parent # None /\ Mapped(old_to_new, old_parent)
  THEN Lookup(old_to_new, old_parent)
  ELSE None

RECURSIVE RewriteLoop(_, _, _, _, _, _)
RewriteLoop(segment, k, new_session_id, n, old_to_new, rewritten) ==
  IF k > Len(segment) THEN rewritten
  ELSE
    LET record   == segment[k]
        new_uuid == -(n + 1)
        o2n      == IF record.uuid # None
                    THEN { pr \in old_to_new : pr[1] # record.uuid }
                           \cup { <<record.uuid, new_uuid>> }
                    ELSE old_to_new
        new_record ==
          [uuid |-> new_uuid,
           parentUuid |-> NewParent(o2n, record.parentUuid),
           sessionId |-> new_session_id,
           type |-> record.type,
           isCompactSummary |-> record.isCompactSummary,
           subtype |-> record.subtype]
    IN RewriteLoop(segment, k + 1, new_session_id, n + 1, o2n,
                   Append(rewritten, new_record))

rewrite_uuids(segment, new_session_id, n) ==
  RewriteLoop(segment, 1, new_session_id, n, {}, << >>)

----------------------------------------------------------------------------
Init ==
  /\ \/ IsLog(records)
     \/ records \in ScenarioLogs
  /\ pc = "find_head"
  /\ head = None
  /\ current_head = None
  /\ current = None
  /\ chain = << >>
  /\ prev_chain_head = None
  /\ segments = << >>
  /\ stop = "none"
  /\ idx = 0
  /\ outputs = << >>
  /\ uuid4_calls = 0
  /\ passes = 0
  /\ walks = 0

\* split_log: head = find_head(records); if not head: return []
FindHead ==
  /\ pc = "find_head"
  /\ head' = find_head(records)
  /\ IF head' = None
     THEN pc' = "done" /\ current_head' = current_head
     ELSE pc' = "outer" /\ current_head' = head'
  /\ UNCHANGED << records, current, chain, prev_chain_head, segments, stop,
                  idx, outputs, uuid4_calls, passes, walks >>

\* Mutant: the chain is not emptied between walks.
StartChainKept(ch) == ch

\* chain = []
StartChain(ch) == << >>

\* while current_head: chain = []; current = current_head; prev_chain_head = None
StartWalk ==
  /\ pc = "outer"
  /\ current_head # None
  /\ chain' = StartChain(chain)
  /\ current' = current_head
  /\ prev_chain_head' = None
  /\ stop' = "none"
  /\ idx' = 0
  /\ pc' = "walk"
  /\ walks' = IF walks < Cap THEN walks + 1 ELSE walks
  /\ UNCHANGED << records, head, current_head, segments, outputs, uuid4_calls,
                  passes >>

\* One test of "while current:" and, if it passes, one pass of the loop body.
WalkRoot ==
  /\ pc = "walk"
  /\ current = None
  /\ stop' = "root"
  /\ pc' = "end_walk"
  /\ UNCHANGED << records, head, current_head, current, chain, prev_chain_head,
                  segments, idx, outputs, uuid4_calls, passes, walks >>

\* Mutant: a walk that meets a missing record discards what it collected.
WalkMissingDiscards ==
  /\ pc = "walk"
  /\ current # None
  /\ ~HasUuid(records, current)
  /\ chain' = << >>
  /\ stop' = "missing"
  /\ pc' = "end_walk"
  /\ UNCHANGED << records, head, current_head, current, prev_chain_head,
                  segments, idx, outputs, uuid4_calls, passes, walks >>

WalkMissing ==
  /\ pc = "walk"
  /\ current # None
  /\ ~HasUuid(records, current)
  /\ stop' = "missing"
  /\ pc' = "end_walk"
  /\ UNCHANGED << records, head, current_head, current, chain, prev_chain_head,
                  segments, idx, outputs, uuid4_calls, passes, walks >>

\* Mutant: the fallback takes the record after the marker.
PrevChainHeadAfter(recs, record) ==
  IF HasUuid(recs, record.uuid) /\ uuid_to_index(recs, record.uuid) < Len(recs)
  THEN recs[uuid_to_index(recs, record.uuid) + 1].uuid
  ELSE None

\* Mutant: the fallback takes the record two lines before the marker.
PrevChainHeadTwoBack(recs, record) ==
  IF HasUuid(recs, record.uuid) /\ uuid_to_index(recs, record.uuid) > 2
  THEN recs[uuid_to_index(recs, record.uuid) - 2].uuid
  ELSE None

PrevChainHead(recs, record) ==
  IF HasUuid(recs, record.uuid) /\ uuid_to_index(recs, record.uuid) > 1
  THEN recs[uuid_to_index(recs, record.uuid) - 1].uuid
  ELSE None

WalkBoundary ==
  /\ pc = "walk"
  /\ current # None
  /\ HasUuid(records, current)
  /\ is_compaction_marker(by_uuid(records, current))
  /\ prev_chain_head' = PrevChainHead(records, by_uuid(records, current))
  /\ idx' = uuid_to_index(records, by_uuid(records, current).uuid)
  /\ stop' = "boundary"
  /\ pc' = "end_walk"
  /\ UNCHANGED << records, head, current_head, current, chain, segments,
                  outputs, uuid4_calls, passes, walks >>

WalkAppend ==
  /\ pc = "walk"
  /\ current # None
  /\ HasUuid(records, current)
  /\ ~is_compaction_marker(by_uuid(records, current))
  /\ chain' = SatAppend(chain, by_uuid(records, current))
  /\ current' = by_uuid(records, current).parentUuid
  /\ passes' = 1 - passes
  /\ UNCHANGED << records, pc, head, current_head, prev_chain_head, segments,
                  stop, idx, outputs, uuid4_calls, walks >>

\* Mutant: the chain is left newest first.
ChronologicalUnreversed(ch) == ch

\* chain.reverse()
Chronological(ch) == Reverse(ch)

\* if chain: segments.append(chain)
Collected(sgs, ch) == IF ch # << >> THEN SatAppend(sgs, ch) ELSE sgs

\* chain.reverse(); if chain: segments.append(chain); current_head = prev_chain_head
EndWalk ==
  /\ pc = "end_walk"
  /\ chain' = Chronological(chain)
  /\ segments' = Collected(segments, chain')
  /\ current_head' = prev_chain_head
  /\ pc' = "outer"
  /\ UNCHANGED << records, head, current, prev_chain_head, stop, idx, outputs,
                  uuid4_calls, passes, walks >>

\* Mutant: the segments are left in discovery order.
ReturnedUnreversed(sgs) == sgs

\* segments.reverse(); return segments
Returned(sgs) == Reverse(sgs)

Return ==
  /\ pc = "outer"
  /\ current_head = None
  /\ segments' = Returned(segments)
  /\ pc' = "rewrite"
  /\ UNCHANGED << records, head, current_head, current, chain, prev_chain_head,
                  stop, idx, outputs, uuid4_calls, passes, walks >>

\* One pass of split_log's loop over the segments.
WriteSegment ==
  /\ pc = "rewrite"
  /\ Len(outputs) < Len(segments)
  /\ LET segment    == segments[Len(outputs) + 1]
         session_id == -(uuid4_calls + 1)
     IN /\ outputs' = Append(outputs,
                        << session_id,
                           rewrite_uuids(segment, session_id, uuid4_calls + 1) >>)
        /\ uuid4_calls' = uuid4_calls + 1 + Len(segment)
  /\ UNCHANGED << records, pc, head, current_head, current, chain,
                  prev_chain_head, segments, stop, idx, passes, walks >>

Finish ==
  /\ pc = "rewrite"
  /\ Len(outputs) = Len(segments)
  /\ pc' = "done"
  /\ UNCHANGED << records, head, current_head, current, chain, prev_chain_head,
                  segments, stop, idx, outputs, uuid4_calls, passes, walks >>

Next ==
  \/ FindHead
  \/ StartWalk
  \/ WalkRoot
  \/ WalkMissing
  \/ WalkBoundary
  \/ WalkAppend
  \/ EndWalk
  \/ Return
  \/ WriteSegment
  \/ Finish

Spec == Init /\ [][Next]_vars

\* The interpreter runs the sequential program to its next step whenever
\* there is one.
FairSpec == Spec /\ WF_vars(Next)

----------------------------------------------------------------------------
\* Vocabulary of the properties

\* extract_all_segments has returned: segments is its result.
Extracted == pc \in {"rewrite", "done"} /\ head # None

RECURSIVE Flatten(_)
Flatten(sgs) == IF sgs = << >> THEN << >> ELSE Head(sgs) \o Flatten(Tail(sgs))

Range(s) == { s[i] : i \in 1..Len(s) }

NoRepeat(s) == \A i, j \in 1..Len(s) : i # j => s[i] # s[j]

Uuids(s) == [i \in 1..Len(s) |-> s[i].uuid]

\* Physical position of the record carrying uuid u, 0 if there is none.
PosOf(u) == IF HasUuid(records, u) THEN uuid_to_index(records, u) ELSE 0

LivePositions(recs) ==
  { i \in 1..Len(recs) :
      recs[i].type \in {"user", "assistant"} /\ ~recs[i].isCompactSummary }

IsMarker(i) ==
  \/ records[i].isCompactSummary
  \/ records[i].type = "system" /\ records[i].subtype = "compact_boundary"

\* The live history as positions: from position p follow the parent link of
\* a non-marker record, and step to the physically preceding record at a
\* marker; seen is what was visited before p.
LiveNext(p) ==
  IF IsMarker(p) THEN p - 1 ELSE PosOf(records[p].parentUuid)

RECURSIVE LiveVisit(_, _)
LiveVisit(p, seen) ==
  IF p = 0 \/ p \in seen THEN seen ELSE LiveVisit(LiveNext(p), seen \cup {p})

LiveHistory == { p \in LiveVisit(PosOf(head), {}) : ~IsMarker(p) }

\* Parent-link ancestors of position p (p included), markers' own parent
\* links followed like any other.
RECURSIVE ParentVisit(_, _)
ParentVisit(p, seen) ==
  IF p = 0 \/ p \in seen THEN seen
  ELSE ParentVisit(PosOf(records[p].parentUuid), seen \cup {p})

Ancestors(p) == ParentVisit(p, {})

EmittedPositions == { PosOf(u) : u \in Range(Uuids(Flatten(segments))) }

----------------------------------------------------------------------------
\* C1 (Completeness): when extract_all_segments returns, the records of its
\* segments taken together are exactly the live history (parent links from
\* the head, continuing at each marker from the record physically before
\* it), every such record exactly once.
Completeness ==
  Extracted =>
    /\ NoRepeat(Flatten(segments))
    /\ \A r \in Range(Flatten(segments)) : r \in Range(records)
    /\ { i \in 1..Len(records) : records[i] \in Range(Flatten(segments)) } = LiveHistory

\* C2 (Disjointness): when extract_all_segments returns, no original uuid
\* occurs in two segments or twice in one segment.
Disjointness == Extracted => NoRepeat(Uuids(Flatten(segments)))

\* A return with several segments, one of them made of a record that points
\* forward in the file.
DisjointnessWitness ==
  /\ Extracted
  /\ Len(segments) >= 2
  /\ \E r \in Range(Flatten(segments)) : r.parentUuid > r.uuid

\* C6 (Boundary reconciliation): after a walk stopped at the marker at
\* position idx, the next walk starts from the record at position idx - 1,
\* and segmentation stops only when the marker is the first record.
BoundaryReconciliation ==
  (pc = "outer" /\ stop = "boundary") =>
    IF idx > 1
    THEN current_head # None /\ PosOf(current_head) = idx - 1
    ELSE current_head = None

\* C9 (Order preservation): in every returned segment each record's original
\* parentUuid is the original uuid of the record before it.
OrderPreservation ==
  Extracted =>
    \A k \in 1..Len(segments) : \A j \in 1..(Len(segments[k]) - 1) :
      segments[k][j + 1].parentUuid = segments[k][j].uuid

OrderPreservationWitness ==
  /\ Extracted
  /\ \E k \in 1..Len(segments) : Len(segments[k]) >= 3

\* C3 (Self-containment): in every written segment the first record's
\* parentUuid is null, every later record's parentUuid is the new uuid of the
\* record before it, and no parentUuid is an identifier, old or new, of a
\* different segment.
OldIds(k) == Range(Uuids(segments[k]))

NewIds(k) == Range(Uuids(outputs[k][2]))

SelfContainment ==
  \A k \in 1..Len(outputs) :
    LET rewritten == outputs[k][2]
    IN /\ Len(rewritten) = Len(segments[k])
       /\ rewritten[1].parentUuid = None
       /\ \A j \in 2..Len(rewritten) :
            rewritten[j].parentUuid = rewritten[j - 1].uuid
       /\ \A j \in 1..Len(rewritten) : \A m \in 1..Len(segments) :
            m # k =>
              /\ rewritten[j].parentUuid \notin OldIds(m)
              /\ m <= Len(outputs) => rewritten[j].parentUuid \notin NewIds(m)

\* Two files written, the second one's first record had a parent (the
\* marker) before rewriting, and it has several records.
SelfContainmentWitness ==
  /\ pc = "done"
  /\ Len(outputs) >= 2
  /\ segments[2][1].parentUuid # None
  /\ Len(outputs[2][2]) >= 2

\* C4 (Revert elimination), as claimed: a record that is not a parent-link
\* ancestor of the head, while a record with the same parent is one, appears
\* in no returned segment.
Abandoned(p) ==
  /\ p \notin Ancestors(PosOf(head))
  /\ \E q \in Ancestors(PosOf(head)) :
       /\ q # p
       /\ records[q].parentUuid # None
       /\ records[q].parentUuid = records[p].parentUuid

Termination == <>(pc = "done")

\* C7 (Head resolution): find_head returns the uuid of the physically last
\* user or assistant record that is no compaction summary, nothing when
\* there is none, and then split_log returns no segment and writes no file.
HeadResolution ==
  /\ pc # "find_head" =>
       head = IF LivePositions(records) = {} THEN None
              ELSE records[Max(LivePositions(records))].uuid
  /\ (pc = "done" /\ head = None) => (segments = << >> /\ outputs = << >>)

\* The head is found behind a compaction summary and a system record.
HeadResolutionWitness ==
  /\ pc = "done"
  /\ head # None
  /\ \E i, j \in 1..Len(records) :
       /\ PosOf(head) < i /\ PosOf(head) < j
       /\ records[i].isCompactSummary /\ records[i].type = "user"
       /\ records[j].type = "system"

\* C8 (Concrete scenario), as claimed: the log A, B, C, M, D, E with D's
\* parent C gives the segments [A, B, C] and [D, E], D rewritten with a null
\* parent, 5 records written, M in none.
WrittenRecords == Flatten([k \in 1..Len(outputs) |-> outputs[k][2]])

ConcreteScenario ==
  (records = ScenarioLog /\ pc = "done") =>
    /\ [k \in 1..Len(segments) |-> Uuids(segments[k])] = << <<1, 2, 3>>, <<5, 6>> >>
    /\ outputs[2][2][1].parentUuid = None
    /\ Len(WrittenRecords) = 5
    /\ ScenarioLog[4] \notin Range(Flatten(segments))

\* C8 as amended: that log gives the single segment [A, B, C, D, E], D
\* rewritten with C's new uuid as parent, 5 records written, M in none; the
\* claimed result is the one of the log in which D's parent is M.
ConcreteScenarioAmended ==
  /\ (records = ScenarioLog /\ pc = "done") =>
       /\ [k \in 1..Len(segments) |-> Uuids(segments[k])] = << <<1, 2, 3, 5, 6>> >>
       /\ outputs[1][2][4].parentUuid = outputs[1][2][3].uuid
       /\ Len(WrittenRecords) = 5
       /\ ScenarioLog[4] \notin Range(Flatten(segments))
  /\ (records = ScenarioLogSevered /\ pc = "done") =>
       /\ [k \in 1..Len(segments) |-> Uuids(segments[k])] = << <<1, 2, 3>>, <<5, 6>> >>
       /\ outputs[2][2][1].parentUuid = None
       /\ Len(WrittenRecords) = 5
       /\ ScenarioLogSevered[4] \notin Range(Flatten(segments))

ConcreteScenarioWitness == records = ScenarioLog /\ pc = "done" /\ Len(outputs) = 1

\* C10 (Segment order): the returned list is oldest first: the head is in
\* the last segment, and the newest record of segment i is the record the
\* walks reach from the marker that ended the walk of segment i + 1, going to
\* the physically preceding record and again from there while that record
\* is itself a marker.
RECURSIVE BeforeMarkers(_)
BeforeMarkers(p) ==
  IF p <= 1 THEN 0
  ELSE IF records[p - 1].uuid # None /\ IsMarker(p - 1) THEN BeforeMarkers(p - 1)
  ELSE p - 1

SegmentOrder ==
  Extracted =>
    /\ Len(segments) >= 1
    /\ segments[Len(segments)][Len(segments[Len(segments)])].uuid = head
    /\ \A i \in 1..(Len(segments) - 1) :
         LET oldest == segments[i + 1][1]
             newest == segments[i][Len(segments[i])]
         IN /\ PosOf(oldest.parentUuid) # 0
            /\ IsMarker(PosOf(oldest.parentUuid))
            /\ PosOf(newest.uuid) = BeforeMarkers(PosOf(oldest.parentUuid))

\* Three segments returned, with a walk that collected nothing in between.
SegmentOrderWitness ==
  /\ Extracted
  /\ Len(segments) >= 3
  /\ \E i \in 1..(Len(segments) - 1) :
       IsMarker(PosOf(segments[i + 1][1].parentUuid) - 1)

\* C11 (Marker exclusion): in every state no compaction marker (a compaction
\* summary, or a system record of subtype compact_boundary) is in the chain
\* being collected or in a collected segment, also when a walk starts at a
\* marker, and no collected segment is empty.
MarkerRecord(r) ==
  \/ r.isCompactSummary = TRUE
  \/ (r.type = "system" /\ r.subtype = "compact_boundary")

MarkerExclusion ==
  /\ \A r \in Range(chain) : ~MarkerRecord(r)
  /\ \A k \in 1..Len(segments) :
       /\ segments[k] # << >>
       /\ \A r \in Range(segments[k]) : ~MarkerRecord(r)

\* A walk that started at a marker (the record before another marker) has
\* ended with nothing collected, segments of newer walks being held.
MarkerExclusionWitness ==
  /\ pc = "outer"
  /\ stop = "boundary"
  /\ chain = << >>
  /\ walks >= 2
  /\ segments # << >>
  /\ \E i \in 1..Len(records) : records[i].isCompactSummary /\ records[i].uuid # None

\* C12 (Broken chain): a walk that reaches a parent identifier the index
\* does not hold stops there; what it collected, the record with the
\* dangling reference included, is appended as a segment, the records being
\* those of the log; the segments of newer walks are kept, and the loop ends
\* in the ordinary way.
Dangling(u) == u # None /\ \A i \in 1..Len(records) : records[i].uuid # u

BrokenChain ==
  /\ [](stop = "missing" =>
          /\ Dangling(current)
          /\ chain # << >>
          /\ \A r \in Range(chain) : r \in Range(records)
          /\ pc = "end_walk" => chain[Len(chain)].parentUuid = current
          /\ pc \in {"end_walk", "outer", "rewrite", "done"})
  /\ [][(pc = "end_walk" /\ stop = "missing") =>
          /\ segments' = Append(segments, Reverse(chain))
          /\ current_head' = None
          /\ pc' = "outer"]_vars
  /\ [][(pc = "outer" /\ stop = "missing") =>
          /\ segments' = Reverse(segments)
          /\ pc' = "rewrite"]_vars

\* A walk started at the record before a marker has stopped at a dangling
\* reference, and its segment has joined the one of the newer walk.
BrokenChainWitness ==
  /\ pc = "outer"
  /\ stop = "missing"
  /\ walks >= 2
  /\ Len(segments) >= 2

\* The transitions of the walk state machine: a walk that has ended is in
\* exactly one terminal state, the one its last test of the loop found; a
\* walk is started by the head or after a walk that stopped at a marker;
\* after a walk stopped at the root or at a missing record the loop returns.
WalkTransitions ==
  /\ [](pc = "end_walk" =>
          /\ stop \in {"root", "boundary", "missing"}
          /\ stop = "root" <=> current = None
          /\ stop = "missing" <=> Dangling(current)
          /\ stop = "boundary" <=>
               (HasUuid(records, current) /\ IsMarker(PosOf(current))))
  /\ [][(pc = "outer" /\ pc' = "walk") => (walks = 0 \/ stop = "boundary")]_vars
  /\ [][(pc = "outer" /\ stop \in {"root", "missing"}) => pc' = "rewrite"]_vars

\* C13 (Walk state machine): every walk ends, in exactly one of the three
\* terminal states (root, compaction marker, missing record); a new walk is
\* started only after a walk that stopped at a compaction marker, and a walk
\* that stopped at the root or at a missing record is the last one.
WalkStateMachine ==
  /\ (pc = "walk") ~> (pc = "end_walk")
  /\ WalkTransitions

\* C14 (Implicit progress bound): in a log with unique uuids in which every
\* parentUuid that resolves names a physically earlier record, every walk
\* after the first starts physically before the marker that ended the walk
\* before it, at most (number of markers + 1) walks are made, the run
\* terminates, and at most that many segments are returned.
UniqueUuids ==
  \A i, j \in 1..Len(records) :
    (i # j /\ records[i].uuid # None) => records[i].uuid # records[j].uuid

BackwardLinks ==
  \A i \in 1..Len(records) :
    PosOf(records[i].parentUuid) # 0 => PosOf(records[i].parentUuid) < i

NumMarkers == Cardinality({ i \in 1..Len(records) : IsMarker(i) })

\* records never changes, so the hypothesis is tested in each state.
ProgressBound ==
  /\ []((UniqueUuids /\ BackwardLinks) =>
          /\ (pc = "walk" /\ walks >= 2 /\ chain = << >> /\ current = current_head) =>
               /\ PosOf(current) >= 1
               /\ PosOf(current) < Len(records)
               /\ IsMarker(PosOf(current) + 1)
          /\ (pc = "outer" /\ stop = "boundary" /\ current_head # None) =>
               (PosOf(current_head) >= 1 /\ PosOf(current_head) < idx)
          /\ walks <= NumMarkers + 1
          /\ Extracted => Len(segments) <= NumMarkers + 1)
  /\ (UniqueUuids /\ BackwardLinks) => <>(pc = "done")

\* The runs over the logs of the hypothesis, executed like those of FairSpec.
InitBackward == Init /\ UniqueUuids /\ BackwardLinks

BackwardSpec == InitBackward /\ [][Next]_vars /\ WF_vars(Next)

\* A run over such a log has ended after as many walks as the bound allows,
\* more than two of them.
ProgressBoundWitness ==
  /\ UniqueUuids /\ BackwardLinks
  /\ pc = "done"
  /\ walks >= 3
  /\ walks = NumMarkers + 1

====
